---------------------------- MODULE Spec2Model ----------------------------
(***************************************************************************)
(* Multinomial Naive Bayes text classifier (src/src/lib.rs).               *)
(*                                                                         *)
(* NaiveBayes::new trains a model from labelled documents, a class set and *)
(* a vocabulary; NaiveBayes::guess scores a document and returns classes.  *)
(*                                                                         *)
(* Texts are sequences of one-character strings; a word is a maximal run   *)
(* of non-whitespace characters.  An f64 is represented by the integer     *)
(* whose base-2 logarithm it is: every f64 the program computes is         *)
(* (n as f64).log2() for a usize n, or a sum of such values.               *)
(***************************************************************************)
EXTENDS Integers, Sequences, FiniteSets, TLC

VARIABLES
    pc,               \* "start", "trained", "new_panicked", "guessed", "guess_panicked"
    vocab,            \* NaiveBayes.vocab      (the vocab argument of new)
    classes,          \* NaiveBayes.classes    (the classes argument of new)
    log_prior,        \* NaiveBayes.log_prior  : HashMap<Class, f64>
    likelihood,       \* NaiveBayes.likelihood : HashMap<(Class, Word), f64>
    log_prior_order,  \* the order in which self.log_prior.iter() yields its keys
    empty_classes,    \* observer: classes of the class set labelling no training document
    document,         \* the argument of the last guess call
    sum,              \* the local `sum` of guess when its scoring loop ends
    max_item,         \* the local `max_item` of guess
    ret               \* the Vec<Class> guess returned

vars == <<pc, vocab, classes, log_prior, likelihood, log_prior_order,
          empty_classes, document, sum, max_item, ret>>

-----------------------------------------------------------------------------
(* Bounds of the model *)

MaxDocs == 3

MaxTextLen == 1

MaxGuessLen == 3

-----------------------------------------------------------------------------
(* Strings *)

good == <<"g", "o", "o", "d">>

bad == <<"b", "a", "d">>

space == <<" ">>

Whitespace == {" "}

Class == {"pos", "neg"}

Vocabulary == {good, bad}

RECURSIVE TextsUpTo(_, _)
TextsUpTo(pieces, n) ==
    IF n = 0 THEN {<<>>}
    ELSE LET shorter == TextsUpTo(pieces, n - 1)
         IN  shorter \cup {t \o p : t \in shorter, p \in pieces}

TrainTexts == TextsUpTo({good, space}, MaxTextLen)

GuessTexts == TextsUpTo({good, bad, space}, MaxGuessLen)

Documents(texts) == [class : Class, text : texts]

SeqsUpTo(S, n) == UNION {[1..k -> S] : k \in 0..n}

Range(s) == {s[i] : i \in DOMAIN s}

Orders(S) == {o \in [1..Cardinality(S) -> S] : Range(o) = S}

EmptyMap == [k \in {} |-> FALSE]

-----------------------------------------------------------------------------
(* f64 values: NegInf, PosInf, NaN, or log2(pow) for an integer pow >= 1 *)

NegInf == [kind |-> "neg_inf", pow |-> 0]

PosInf == [kind |-> "pos_inf", pow |-> 0]

NaN == [kind |-> "nan", pow |-> 0]

Finite(n) == [kind |-> "finite", pow |-> n]

\* (n as f64).log2() for a usize n
Log2(n) == IF n = 0 THEN NegInf ELSE Finite(n)

\* x < y on f64
FLt(x, y) ==
    CASE x.kind = "nan" \/ y.kind = "nan" -> FALSE
      [] x.kind = "neg_inf" -> y.kind # "neg_inf"
      [] x.kind = "pos_inf" -> FALSE
      [] OTHER -> \/ y.kind = "pos_inf"
                  \/ y.kind = "finite" /\ x.pow < y.pow

\* x == y on f64
FEq(x, y) == x.kind # "nan" /\ y.kind # "nan" /\ x = y

\* x + y on f64.  log2(a) + log2(1) is log2(a) exactly, and an infinity absorbs
\* every finite value; log2(a) + log2(b) is log2(a * b) up to rounding otherwise.
FAdd(x, y) ==
    CASE x.kind = "nan" \/ y.kind = "nan" -> NaN
      [] x.kind = "neg_inf" -> IF y.kind = "pos_inf" THEN NaN ELSE NegInf
      [] x.kind = "pos_inf" -> IF y.kind = "neg_inf" THEN NaN ELSE PosInf
      [] OTHER -> IF y.kind = "finite" THEN Finite(x.pow * y.pow) ELSE y

-----------------------------------------------------------------------------
(* Document::words *)

RECURSIVE SplitWhitespace(_, _, _, _)
SplitWhitespace(text, i, cur, acc) ==
    IF i > Len(text)
    THEN IF cur = <<>> THEN acc ELSE Append(acc, cur)
    ELSE IF text[i] \in Whitespace
         THEN SplitWhitespace(text, i + 1, <<>>,
                              IF cur = <<>> THEN acc ELSE Append(acc, cur))
         ELSE SplitWhitespace(text, i + 1, Append(cur, text[i]), acc)

words(doc) == SplitWhitespace(doc.text, 1, <<>>, <<>>)

-----------------------------------------------------------------------------
(* HashMap operations *)

Insert(m, k, v) == [x \in DOMAIN m \cup {k} |-> IF x = k THEN v ELSE m[x]]

Extend(m, n) == [x \in DOMAIN m \cup DOMAIN n |-> IF x \in DOMAIN n THEN n[x] ELSE m[x]]

-----------------------------------------------------------------------------
(* NaiveBayes::new *)

\* documents.iter().filter(|doc| doc.class == *class).collect()
class_documents(documents, class) ==
    SelectSeq(documents, LAMBDA doc : doc.class = class)

\* class_documents.iter().flat_map(|doc| doc.words()).collect()
RECURSIVE class_documents_words(_)
class_documents_words(docs) ==
    IF docs = <<>> THEN <<>>
    ELSE words(Head(docs)) \o class_documents_words(Tail(docs))

\* class_documents_words.iter().filter(|w| *w == v).count()
count(ws, v) == Cardinality({i \in DOMAIN ws : ws[i] = v})

\* vocab.iter().map(|v| count(v) + 1).sum()
RECURSIVE class_words_count(_, _)
class_words_count(ws, vs) ==
    IF vs = {} THEN 0
    ELSE LET v == CHOOSE x \in vs : TRUE
         IN  (count(ws, v) + 1) + class_words_count(ws, vs \ {v})

\* The outcome of a step that may panic: the value, or a panic.
Ok(v) == [panic |-> FALSE, value |-> v]

Panic == [panic |-> TRUE, value |-> FALSE]

\* A mutant of class_log_prior: floating-point division, which does not panic
\* on a zero divisor.
class_log_prior_float(n_documents, n_class_documents) ==
    IF n_class_documents = 0
    THEN Ok(IF n_documents = 0 THEN NaN ELSE PosInf)
    ELSE Ok(Log2(n_documents \div n_class_documents))

\* ((documents.len() / class_documents.len()) as f64).log2(): usize division,
\* which panics on a zero divisor.
class_log_prior(n_documents, n_class_documents) ==
    IF n_class_documents = 0 THEN Panic
    ELSE Ok(Log2(n_documents \div n_class_documents))

\* A mutant of quotient: the operands of the division swapped.
quotient_swapped(word_count, words_count) == words_count \div (word_count + 1)

\* (count + 1) / class_words_count: usize division
quotient(word_count, words_count) == (word_count + 1) \div words_count

\* A mutant of class_likelihood: only the words that occur in the class's
\* documents get an entry.
class_likelihood_seen(class, ws, words_count, vs) ==
    [k \in {class} \X (vs \cap Range(ws)) |->
        Log2(quotient(count(ws, k[2]), words_count))]

\* vocab.iter().map(|word| ((class, word), likelihood)).collect()
class_likelihood(class, ws, words_count, vs) ==
    [k \in {class} \X vs |-> Log2(quotient(count(ws, k[2]), words_count))]

\* The closure mapped over classes: ((class, log_prior), likelihood), or a panic.
train_class(documents, class, vs) ==
    LET docs == class_documents(documents, class)
        ws == class_documents_words(docs)
        words_count == class_words_count(ws, vs)
        prior == class_log_prior(Len(documents), Len(docs))
    IN  IF prior.panic \/ (vs # {} /\ words_count = 0)
        THEN Panic
        ELSE Ok([log_prior |-> prior.value,
                 likelihood |-> class_likelihood(class, ws, words_count, vs)])

\* classes.iter().map(..).fold((HashMap::new(), HashMap::new()), ..)
RECURSIVE fold_classes(_, _, _, _)
fold_classes(documents, todo, vs, acc) ==
    IF todo = {} THEN Ok(acc)
    ELSE LET class == CHOOSE c \in todo : TRUE
             r == train_class(documents, class, vs)
         IN  IF r.panic THEN Panic
             ELSE fold_classes(documents, todo \ {class}, vs,
                    [log_prior |-> Insert(acc.log_prior, class, r.value.log_prior),
                     likelihood |-> Extend(acc.likelihood, r.value.likelihood)])

\* A mutant of new: an empty vocabulary is rejected before training.
new_validated(documents, cs, vs) ==
    IF vs = {} THEN Panic
    ELSE fold_classes(documents, cs, vs, [log_prior |-> EmptyMap, likelihood |-> EmptyMap])

new(documents, cs, vs) ==
    fold_classes(documents, cs, vs, [log_prior |-> EmptyMap, likelihood |-> EmptyMap])

-----------------------------------------------------------------------------
(* NaiveBayes::guess *)

\* A mutant of score_word: a word outside the vocabulary is penalised.
score_word_penalty(s, class, word) ==
    IF s.panic THEN s
    ELSE IF class \notin DOMAIN s.value THEN Panic
    ELSE IF word \in vocab /\ <<class, word>> \notin DOMAIN likelihood THEN Panic
    ELSE Ok(Insert(s.value, class,
                   FAdd(s.value[class],
                        IF word \in vocab THEN likelihood[<<class, word>>] ELSE NegInf)))

\* if self.vocab.contains(word) { sum.insert(class, sum[class] + self.likelihood[&(class, word)]) }
\* Indexing a map by a key it does not hold panics.
score_word(s, class, word) ==
    IF s.panic \/ word \notin vocab THEN s
    ELSE IF class \notin DOMAIN s.value \/ <<class, word>> \notin DOMAIN likelihood
    THEN Panic
    ELSE Ok(Insert(s.value, class, FAdd(s.value[class], likelihood[<<class, word>>])))

\* for word in document.words() { .. }
RECURSIVE score_words(_, _, _)
score_words(s, class, ws) ==
    IF ws = <<>> THEN s
    ELSE score_words(score_word(s, class, Head(ws)), class, Tail(ws))

\* for class in self.classes.iter() { .. }
RECURSIVE score_classes(_, _, _)
score_classes(s, todo, ws) ==
    IF todo = {} THEN s
    ELSE LET class == CHOOSE c \in todo : TRUE
         IN  score_classes(score_words(s, class, ws), todo \ {class}, ws)

\* let mut sum = self.log_prior.clone(); followed by the scoring loop
scores(doc) == score_classes(Ok(log_prior), classes, words(doc))

\* The comparator handed to max_by.
compare(i, j) == IF FLt(i, j) THEN "Greater" ELSE "Less"

None == [some |-> FALSE, class |-> "", value |-> NaN]

Some(c, v) == [some |-> TRUE, class |-> c, value |-> v]

\* Iterator::max_by: reduce(|x, y| match compare(&x, &y) { Greater => x, _ => y })
RECURSIVE reduce_max(_, _, _)
reduce_max(s, x, rest) ==
    IF rest = <<>> THEN x
    ELSE LET y == Some(Head(rest), s[Head(rest)])
         IN  reduce_max(s, IF compare(x.value, y.value) = "Greater" THEN x ELSE y,
                        Tail(rest))

\* sum.iter().max_by(..), sum.iter() yielding its keys in `order`
max_by(s, order) ==
    IF order = <<>> THEN None
    ELSE reduce_max(s, Some(Head(order), s[Head(order)]), Tail(order))

\* self.log_prior.iter().map_while(|(class, value)| ..).collect(),
\* self.log_prior.iter() yielding its keys in `order`
RECURSIVE map_while(_, _)
map_while(order, max_value) ==
    IF order = <<>> THEN <<>>
    ELSE IF FEq(log_prior[Head(order)], max_value)
         THEN <<Head(order)>> \o map_while(Tail(order), max_value)
         ELSE <<>>

\* A mutant of match_max_item: max_item.unwrap() in place of the None arm.
match_max_item_unwrap(item, order) ==
    IF item.some THEN Ok(map_while(order, item.value)) ELSE Panic

\* match max_item { None => Vec::new(), Some((_, max_value)) => .. }
match_max_item(item, order) ==
    IF item.some THEN Ok(map_while(order, item.value)) ELSE Ok(<<>>)

-----------------------------------------------------------------------------
(* The state machine *)

Init ==
    /\ pc = "start"
    /\ vocab = {}
    /\ classes = {}
    /\ log_prior = EmptyMap
    /\ likelihood = EmptyMap
    /\ log_prior_order = <<>>
    /\ empty_classes = {}
    /\ document = [class |-> "pos", text |-> <<>>]
    /\ sum = EmptyMap
    /\ max_item = None
    /\ ret = <<>>

\* One call NaiveBayes::new(documents, cs, vs).
Construct(documents, cs, vs) ==
    \E r \in {new(documents, cs, vs)} :    \* evaluated once
        /\ vocab' = vs
        /\ classes' = cs
        /\ empty_classes' = {c \in cs : \A i \in DOMAIN documents : documents[i].class # c}
        /\ IF r.panic
           THEN /\ pc' = "new_panicked"
                /\ log_prior' = EmptyMap
                /\ likelihood' = EmptyMap
                /\ log_prior_order' = <<>>
           ELSE /\ pc' = "trained"
                /\ log_prior' = r.value.log_prior
                /\ likelihood' = r.value.likelihood
                /\ log_prior_order' \in Orders(DOMAIN r.value.log_prior)
        /\ UNCHANGED <<document, sum, max_item, ret>>

New ==
    /\ pc = "start"
    /\ \E documents \in SeqsUpTo(Documents(TrainTexts), MaxDocs),
          cs \in SUBSET Class, vs \in SUBSET Vocabulary :
            Construct(documents, cs, vs)

\* One call self.guess(doc) on a trained model.  guess takes &self and leaves the
\* model as it is, so one call per behaviour shows every result a call can have.
Guess ==
    /\ pc = "trained"
    /\ \E doc \in Documents(GuessTexts) :
         \E s \in {scores(doc)} :           \* evaluated once
             /\ document' = doc
             /\ IF s.panic
                THEN /\ pc' = "guess_panicked"
                     /\ UNCHANGED <<sum, max_item, ret>>
                ELSE \E sum_order \in Orders(DOMAIN s.value) :
                       LET item == max_by(s.value, sum_order)
                           r == match_max_item(item, log_prior_order)
                       IN  /\ sum' = s.value
                           /\ max_item' = item
                           /\ pc' = IF r.panic THEN "guess_panicked" ELSE "guessed"
                           /\ ret' = IF r.panic THEN <<>> ELSE r.value
    /\ UNCHANGED <<vocab, classes, log_prior, likelihood, log_prior_order, empty_classes>>

Next == New \/ Guess

Spec == Init /\ [][Next]_vars

(* The end-to-end scenario: the training call has fixed arguments. *)

E2EDocuments ==
    << [class |-> "pos", text |-> good \o space \o good],
       [class |-> "neg", text |-> bad \o space \o bad] >>

NewE2E ==
    /\ pc = "start"
    /\ Construct(E2EDocuments, {"pos", "neg"}, {good, bad})

NextE2E == NewE2E \/ Guess

SpecE2E == Init /\ [][NextE2E]_vars

-----------------------------------------------------------------------------
(* Properties *)

\* new returned a model (guess may have been called on it since).
Returned == pc \in {"trained", "guessed", "guess_panicked"}

\* guess was called.
GuessCalled == pc \in {"guessed", "guess_panicked"}

\* The document handed to guess has a token of the vocabulary.
HasVocabWord == \E w \in Range(words(document)) : w \in vocab

\* The classes whose total score is the maximum over all classes.
Maximal == {c \in classes : \A d \in classes : ~FLt(sum[c], sum[d])}

\* C1: guess returns exactly the classes whose total score (log-prior plus the
\* log-likelihoods of the document's in-vocabulary tokens) equals the maximum
\* total score over all classes.
C1_GuessReturnsMaximal == pc = "guessed" => Range(ret) = Maximal

\* C2: in the end-to-end scenario (vocabulary {good, bad}, classes {pos, neg},
\* training documents (pos, "good good") and (neg, "bad bad")), guess on the
\* text "good" returns pos and guess on the text "bad" returns neg.
C2_EndToEnd ==
    pc = "guessed" =>
        /\ document.text = good => ret = <<"pos">>
        /\ document.text = bad => ret = <<"neg">>

\* C3: with a non-empty vocabulary, the value whose log2 is stored as a
\* likelihood is never zero: no stored likelihood is negative infinity.
C3_NoLikelihoodIsLogZero ==
    (Returned /\ vocab # {}) =>
        \A k \in DOMAIN likelihood : likelihood[k] # NegInf

\* C4: whenever new returns a model, the likelihood map has exactly the keys
\* classes x vocab, the log_prior map has exactly the keys classes, and no map
\* lookup of guess fails.
C4_Density ==
    Returned =>
        /\ DOMAIN likelihood = classes \X vocab
        /\ DOMAIN log_prior = classes
        /\ pc # "guess_panicked"

C4_Witness ==
    /\ pc = "guessed"
    /\ classes = Class
    /\ vocab = Vocabulary
    /\ HasVocabWord

\* C5: for a fixed model and document, the set of classes guess returns is the
\* same for every iteration order of the log_prior map and of sum.
C5_OrderIndependent ==
    pc = "guessed" =>
        \A order \in Orders(classes), sum_order \in Orders(classes) :
            Range(match_max_item(max_by(sum, sum_order), order).value) = Range(ret)

C7_DegenerateClassPanics ==
    /\ (pc # "start" /\ empty_classes # {}) => pc = "new_panicked"
    /\ Returned => \A c \in DOMAIN log_prior : log_prior[c].kind = "finite"

C7_Witness ==
    /\ pc = "new_panicked"
    /\ classes = Class
    /\ empty_classes = {"neg"}

\* C8: on a model built with an empty class set, guess returns the empty
\* vector for every document and does not panic.
C8_EmptyClassSet ==
    (GuessCalled /\ classes = {}) => (pc = "guessed" /\ ret = <<>>)

C8_Witness ==
    /\ pc = "guessed"
    /\ classes = {}
    /\ HasVocabWord
    /\ \E w \in Range(words(document)) : w \notin vocab

\* C9: when every token of the document is outside the vocabulary, the score
\* guess computes for each class is exactly the class's log-prior.
C9_UnknownWordNeutrality ==
    (GuessCalled /\ ~HasVocabWord) => (pc = "guessed" /\ sum = log_prior)

C9_Witness ==
    /\ pc = "guessed"
    /\ classes = Class
    /\ vocab # {}
    /\ words(document) # <<>>
    /\ ~HasVocabWord

\* C10: every stored likelihood is log2 of the integer 0 or 1, and of 1 only
\* when the vocabulary has exactly one word; every log-prior is log2 of an
\* integer >= 1.  With a vocabulary of at least two words, guess on a document
\* holding a vocabulary token scores every class negative infinity and returns
\* the empty vector.
C10_IntegerDivisionCollapse ==
    Returned =>
        /\ \A k \in DOMAIN likelihood :
            /\ likelihood[k] \in {Log2(0), Log2(1)}
            /\ likelihood[k] = Log2(1) => Cardinality(vocab) = 1
        /\ \A c \in DOMAIN log_prior :
            log_prior[c].kind = "finite" /\ log_prior[c].pow >= 1
        /\ (pc = "guessed" /\ Cardinality(vocab) >= 2 /\ HasVocabWord) =>
            /\ \A c \in classes : sum[c] = NegInf
            /\ ret = <<>>

C10_Witness ==
    /\ pc = "guessed"
    /\ classes = Class
    /\ vocab = Vocabulary
    /\ HasVocabWord
    /\ \E c \in classes : log_prior[c] # Log2(1)

=============================================================================
